---------------------------- MODULE Spec2Model ----------------------------
(***************************************************************************)
(* A model of the echo example of brpc: example/echo_c++/client.cpp (the   *)
(* client's main: channel initialisation and the request loop) and         *)
(* example/echo_c++/server.cpp (EchoServiceImpl::Echo and the server's     *)
(* main).  Calls into the RPC framework (Channel::Init, the stub's Echo,   *)
(* Server::AddService, str2endpoint, Server::Start, RunUntilAskedToQuit,   *)
(* IsAskedToQuit, ClosureGuard) are modelled by their documented effect    *)
(* and a nondeterministic result.                                          *)
(***************************************************************************)
EXTENDS Integers, Sequences, FiniteSets, TLC

(***************************************************************************)
(* Bounds of the model.                                                    *)
(***************************************************************************)
\* Width in bits of the model's `int': client.cpp:76 declares the counter as
\* a 32-bit `int'; the model keeps two's complement arithmetic at a reduced
\* width so that the counter's limit is within reach of the search.
IntBits == 3
\* Longest attachment, in bytes.
MaxAttLen == 1
\* Number of Echo handler invocations the framework may run at once.
NumSlots == 2

INT_MAX == 2 ^ (IntBits - 1) - 1
INT_MIN == 0 - 2 ^ (IntBits - 1)
\* Controller::set_log_id takes a uint64_t; twice the width of int.
IdBits == 2 * IntBits
\* The client loop is followed for one full cycle of the counter and two
\* more calls.
MaxCalls == 2 ^ IntBits + 2

Bytes == {"a", "b"}
RECURSIVE SeqsUpTo(_)
SeqsUpTo(n) ==
    IF n = 0 THEN {<<>>}
    ELSE LET shorter == SeqsUpTo(n - 1)
         IN  shorter \cup {Append(s, b) : s \in {t \in shorter : Len(t) = n - 1}, b \in Bytes}
Attachments == SeqsUpTo(MaxAttLen)
Messages == {"", "hello world"}
ListenAddrs == {"", "0.0.0.0:8000", "not-an-address"}
ErrorTexts == {"[E1008]Reached timeout=100ms", "[E112]Not connected to 0.0.0.0:8000 yet"}
Slots == 1 .. NumSlots

VARIABLES
    \* ---- client.cpp ----
    FLAGS_attachment,   \* DEFINE_string(attachment, ...)
    cpc,                \* position of the client's main
    client_rc,          \* values returned by the client's main (<<>> while it runs)
    log_id,             \* int log_id
    request,            \* example::EchoRequest request (of the current iteration)
    response,           \* example::EchoResponse response
    cntl,               \* brpc::Controller cntl
    sent,               \* the calls handed to stub.Echo so far, in order
    inflight,           \* calls handed to stub.Echo that have not come back
    iterations,         \* loop bodies entered
    asked_to_quit,      \* brpc::IsAskedToQuit() of the client process
    client_log,         \* last line logged by the client
    \* ---- server.cpp ----
    FLAGS_echo_attachment,
    FLAGS_listen_addr,
    spc,                \* position of the server's main
    server_rc,          \* values returned by the server's main (<<>> while it runs)
    start_called,       \* server.Start was called
    run_called,         \* server.RunUntilAskedToQuit was called
    server_quit,        \* Ctrl-C was pressed in the server process
    server_log,         \* last line logged by the server's main
    calls               \* the handler invocations, one per slot

clientVars == <<FLAGS_attachment, cpc, client_rc, log_id, request, response, cntl,
                sent, inflight, iterations, asked_to_quit, client_log>>
serverMainVars == <<FLAGS_listen_addr, spc, server_rc, start_called, run_called,
                    server_quit, server_log>>
serverVars == <<FLAGS_echo_attachment, FLAGS_listen_addr, spc, server_rc, start_called,
                run_called, server_quit, server_log, calls>>
vars == <<FLAGS_attachment, cpc, client_rc, log_id, request, response, cntl,
          sent, inflight, iterations, asked_to_quit, client_log,
          FLAGS_echo_attachment, FLAGS_listen_addr, spc, server_rc, start_called,
          run_called, server_quit, server_log, calls>>

(***************************************************************************)
(* Objects as their constructors leave them.                               *)
(***************************************************************************)
NoLine == [level |-> "NONE", text |-> ""]
NewRequest == [message |-> ""]
NewResponse == [message |-> ""]
NewController ==
    [log_id |-> 0, request_attachment |-> <<>>, response_attachment |-> <<>>,
     failed |-> FALSE, error_text |-> ""]
IdleCall ==
    [pc |-> "idle", request |-> NewRequest, response |-> NewResponse,
     cntl |-> NewController, done_guard |-> FALSE, done_runs |-> 0, logged |-> FALSE]

Init ==
    /\ FLAGS_attachment \in Attachments
    /\ cpc = "init"
    /\ client_rc = <<>>
    /\ log_id = 0
    /\ request = NewRequest
    /\ response = NewResponse
    /\ cntl = NewController
    /\ sent = <<>>
    /\ inflight = 0
    /\ iterations = 0
    /\ asked_to_quit = FALSE
    /\ client_log = NoLine
    /\ FLAGS_echo_attachment \in BOOLEAN
    /\ FLAGS_listen_addr \in ListenAddrs
    /\ spc = "add_service"
    /\ server_rc = <<>>
    /\ start_called = FALSE
    /\ run_called = FALSE
    /\ server_quit = FALSE
    /\ server_log = NoLine
    /\ calls = [i \in Slots |-> IdleCall]


(***************************************************************************)
(* client.cpp: main                                                        *)
(***************************************************************************)
\* The argument of set_log_id: the int converted to uint64_t.
ToLogId(v) == v % (2 ^ IdBits)

\* The values `log_id ++' can leave in the counter.  Incrementing INT_MAX is
\* a signed overflow, which is undefined: the build either adds in the 32-bit
\* register (two's complement wrap to INT_MIN) or, relying on the absence of
\* overflow, keeps the counter in the 64-bit register it is passed in.
PostIncrement(v) == IF v = INT_MAX THEN {INT_MIN, INT_MAX + 1} ELSE {v + 1}

\* Variant: one Controller declared before the loop and used by every iteration.
LoopControllerReused(prev) == prev

\* The Controller an iteration works with: `brpc::Controller cntl;' is
\* declared inside the loop body, so every iteration constructs its own.
LoopController(prev) == NewController

\* The bytes appended to the request attachment.
RequestAttachment(c, flag) == c.request_attachment \o flag

\* The line logged after the call came back.
ResultLine(c, resp) ==
    IF ~c.failed
    THEN [level |-> "INFO", text |-> resp.message]
    ELSE [level |-> "WARNING", text |-> c.error_text]

\* Variant: a failed call breaks out of the loop.
AfterResultBreak(c) == IF c.failed THEN "quit_log" ELSE "sleep"

\* Where the loop goes once the result was logged.
AfterResult(c) == "sleep"

\* Variant: the loop condition without its negation.
LoopTargetInverted(quit) == IF quit THEN "set_message" ELSE "quit_log"

\* Where `while (!brpc::IsAskedToQuit())' goes.
LoopTarget(quit) == IF quit THEN "quit_log" ELSE "set_message"

\* channel.Init(...) != 0: log the error and return -1.
ChannelInitFail ==
    /\ cpc = "init"
    /\ client_log' = [level |-> "ERROR", text |-> "Fail to initialize channel"]
    /\ client_rc' = <<-1>>
    /\ cpc' = "done"
    /\ UNCHANGED <<serverVars, FLAGS_attachment, log_id, request, response, cntl, sent, inflight,
                   iterations, asked_to_quit>>

\* channel.Init(...) == 0: construct the stub, `int log_id = 0'.
ChannelInitOk ==
    /\ cpc = "init"
    /\ log_id' = 0
    /\ cpc' = "loop_top"
    /\ UNCHANGED <<serverVars, FLAGS_attachment, client_rc, request, response, cntl, sent, inflight,
                   iterations, asked_to_quit, client_log>>

\* while (!brpc::IsAskedToQuit()) { EchoRequest request; EchoResponse response;
\* Controller cntl;
LoopTest ==
    /\ cpc = "loop_top"
    /\ asked_to_quit \/ Len(sent) < MaxCalls
    /\ cpc' = LoopTarget(asked_to_quit)
    /\ IF asked_to_quit
       THEN UNCHANGED <<request, response, cntl, iterations>>
       ELSE /\ request' = NewRequest
            /\ response' = NewResponse
            /\ cntl' = LoopController(cntl)
            /\ iterations' = iterations + 1
    /\ UNCHANGED <<serverVars, FLAGS_attachment, client_rc, log_id, sent, inflight, asked_to_quit,
                   client_log>>

\* request.set_message("hello world");
SetMessage ==
    /\ cpc = "set_message"
    /\ request' = [request EXCEPT !.message = "hello world"]
    /\ cpc' = "set_log_id"
    /\ UNCHANGED <<serverVars, FLAGS_attachment, client_rc, log_id, response, cntl, sent, inflight,
                   iterations, asked_to_quit, client_log>>

\* cntl.set_log_id(log_id ++);
SetLogId ==
    /\ cpc = "set_log_id"
    /\ cntl' = [cntl EXCEPT !.log_id = ToLogId(log_id)]
    /\ log_id' \in PostIncrement(log_id)
    /\ cpc' = "append_attachment"
    /\ UNCHANGED <<serverVars, FLAGS_attachment, client_rc, request, response, sent, inflight,
                   iterations, asked_to_quit, client_log>>

\* cntl.request_attachment().append(FLAGS_attachment);
AppendAttachment ==
    /\ cpc = "append_attachment"
    /\ cntl' = [cntl EXCEPT !.request_attachment = RequestAttachment(cntl, FLAGS_attachment)]
    /\ cpc' = "call"
    /\ UNCHANGED <<serverVars, FLAGS_attachment, client_rc, log_id, request, response, sent, inflight,
                   iterations, asked_to_quit, client_log>>

\* stub.Echo(&cntl, &request, &response, NULL): the call is handed to the
\* channel; done is NULL, so main waits for it.
CallEcho ==
    /\ cpc = "call"
    /\ sent' = Append(sent, [log_id |-> cntl.log_id, message |-> request.message,
                             attachment |-> cntl.request_attachment])
    /\ inflight' = inflight + 1
    /\ cpc' = "wait"
    /\ UNCHANGED <<serverVars, FLAGS_attachment, client_rc, log_id, request, response, cntl,
                   iterations, asked_to_quit, client_log>>

\* stub.Echo returns with the response of the server.
EchoSucceeds ==
    /\ cpc = "wait"
    /\ \E echoed \in BOOLEAN :
         /\ response' = [response EXCEPT !.message = request.message]
         /\ cntl' = [cntl EXCEPT !.response_attachment =
                        IF echoed THEN cntl.request_attachment ELSE <<>>]
    /\ inflight' = inflight - 1
    /\ cpc' = "judge"
    /\ UNCHANGED <<serverVars, FLAGS_attachment, client_rc, log_id, request, sent, iterations,
                   asked_to_quit, client_log>>

\* stub.Echo returns with the Controller failed (timeout, transport error,
\* error of the server).
EchoFails ==
    /\ cpc = "wait"
    /\ \E e \in ErrorTexts :
         cntl' = [cntl EXCEPT !.failed = TRUE, !.error_text = e]
    /\ inflight' = inflight - 1
    /\ cpc' = "judge"
    /\ UNCHANGED <<serverVars, FLAGS_attachment, client_rc, log_id, request, response, sent,
                   iterations, asked_to_quit, client_log>>

\* if (!cntl.Failed()) { LOG(INFO) ... } else { LOG(WARNING) << cntl.ErrorText(); }
Judge ==
    /\ cpc = "judge"
    /\ client_log' = ResultLine(cntl, response)
    /\ cpc' = AfterResult(cntl)
    /\ UNCHANGED <<serverVars, FLAGS_attachment, client_rc, log_id, request, response, cntl, sent,
                   inflight, iterations, asked_to_quit>>

\* usleep(FLAGS_interval_ms * 1000L); }
Sleep ==
    /\ cpc = "sleep"
    /\ cpc' = "loop_top"
    /\ UNCHANGED <<serverVars, FLAGS_attachment, client_rc, log_id, request, response, cntl, sent,
                   inflight, iterations, asked_to_quit, client_log>>

\* LOG(INFO) << "EchoClient is going to quit"; return 0;
ClientQuit ==
    /\ cpc = "quit_log"
    /\ client_log' = [level |-> "INFO", text |-> "EchoClient is going to quit"]
    /\ client_rc' = <<0>>
    /\ cpc' = "done"
    /\ UNCHANGED <<serverVars, FLAGS_attachment, log_id, request, response, cntl, sent, inflight,
                   iterations, asked_to_quit>>

\* The shutdown signal reaches the client process: IsAskedToQuit() is true
\* from now on.
ClientSignal ==
    /\ cpc \notin {"init", "done"}
    /\ ~asked_to_quit
    /\ asked_to_quit' = TRUE
    /\ UNCHANGED <<serverVars, FLAGS_attachment, cpc, client_rc, log_id, request, response, cntl,
                   sent, inflight, iterations, client_log>>

ClientNext ==
    \/ ChannelInitFail
    \/ ChannelInitOk
    \/ LoopTest
    \/ SetMessage
    \/ SetLogId
    \/ AppendAttachment
    \/ CallEcho
    \/ EchoSucceeds
    \/ EchoFails
    \/ Judge
    \/ Sleep
    \/ ClientQuit
    \/ ClientSignal

\* The client process alone, the server's flags at their defaults.
InitClient == Init /\ FLAGS_echo_attachment = TRUE /\ FLAGS_listen_addr = ""
SpecClient == InitClient /\ [][ClientNext]_vars

(***************************************************************************)
(* server.cpp: EchoServiceImpl::Echo                                       *)
(***************************************************************************)
\* Variant: the guard gives done up (done_guard.release()) and nobody runs it.
GuardReleased(c) == FALSE

\* brpc::ClosureGuard done_guard(done): the guard holds done.
GuardDone(c) == TRUE

\* response->set_message(request->message());
EchoMessage(resp, req) == [resp EXCEPT !.message = req.message]

\* Variant: the handler reads the attachment through a Controller pointer kept
\* in the service object, which the invocation in the first slot has set.
EchoSourceShared(cs, i) == cs[1].cntl.request_attachment

\* The request attachment the handler of slot i reads: that of the
\* Controller it was called with.
EchoSource(cs, i) == cs[i].cntl.request_attachment

\* Variant: the attachment is appended twice.
EchoAttachmentTwice(c, flag, src) ==
    IF flag THEN [c EXCEPT !.response_attachment = (c.response_attachment \o src) \o src]
    ELSE c

\* Variant: the attachment is echoed whatever the flag says.
EchoAttachmentAlways(c, flag, src) ==
    [c EXCEPT !.response_attachment = c.response_attachment \o src]

\* if (FLAGS_echo_attachment) {
\*     cntl->response_attachment().append(cntl->request_attachment()); }
EchoAttachment(c, flag, src) ==
    IF flag THEN [c EXCEPT !.response_attachment = c.response_attachment \o src]
    ELSE c

\* ~ClosureGuard at the end of Echo: runs the closure it holds, if any.
GuardRuns(held) == IF held THEN 1 ELSE 0

\* A handler invocation is under way in the slot.
Running(c) == c.pc \notin {"idle", "returned"}

\* The framework calls Echo with a request, a Controller carrying the
\* request attachment, an empty response and a closure.
Dispatch(i) ==
    /\ spc = "serving"
    /\ ~server_quit
    /\ ~Running(calls[i])
    /\ \E m \in Messages, a \in Attachments :
         calls' = [calls EXCEPT ![i] =
                     [pc |-> "guard",
                      request |-> [message |-> m],
                      response |-> NewResponse,
                      cntl |-> [NewController EXCEPT !.request_attachment = a],
                      done_guard |-> FALSE, done_runs |-> 0, logged |-> FALSE]]
    /\ UNCHANGED <<clientVars, FLAGS_echo_attachment, serverMainVars>>

\* brpc::ClosureGuard done_guard(done);
EchoGuard(i) ==
    /\ calls[i].pc = "guard"
    /\ calls' = [calls EXCEPT ![i].done_guard = GuardDone(calls[i]), ![i].pc = "log"]
    /\ UNCHANGED <<clientVars, FLAGS_echo_attachment, serverMainVars>>

\* LOG(INFO) << "Received request[log_id=" ...
EchoLog(i) ==
    /\ calls[i].pc = "log"
    /\ calls' = [calls EXCEPT ![i].logged = TRUE, ![i].pc = "set_message"]
    /\ UNCHANGED <<clientVars, FLAGS_echo_attachment, serverMainVars>>

\* response->set_message(request->message());
EchoSetMessage(i) ==
    /\ calls[i].pc = "set_message"
    /\ calls' = [calls EXCEPT ![i].response = EchoMessage(calls[i].response, calls[i].request),
                              ![i].pc = "attach"]
    /\ UNCHANGED <<clientVars, FLAGS_echo_attachment, serverMainVars>>

\* if (FLAGS_echo_attachment) { ... append ... }
EchoAttach(i) ==
    /\ calls[i].pc = "attach"
    /\ calls' = [calls EXCEPT ![i].cntl = EchoAttachment(calls[i].cntl, FLAGS_echo_attachment,
                                                         EchoSource(calls, i)),
                              ![i].pc = "return"]
    /\ UNCHANGED <<clientVars, FLAGS_echo_attachment, serverMainVars>>

\* } of Echo: done_guard goes out of scope.
EchoReturn(i) ==
    /\ calls[i].pc = "return"
    /\ calls' = [calls EXCEPT ![i].done_runs = calls[i].done_runs + GuardRuns(calls[i].done_guard),
                              ![i].done_guard = FALSE,
                              ![i].pc = "returned"]
    /\ UNCHANGED <<clientVars, FLAGS_echo_attachment, serverMainVars>>

(***************************************************************************)
(* server.cpp: main                                                        *)
(***************************************************************************)
\* butil::str2endpoint: negative for a string that is no endpoint.
Str2Endpoint(addr) == IF addr = "not-an-address" THEN -1 ELSE 0

\* Variant: the result of str2endpoint is not looked at.
AfterListenAddrUnchecked(addr) == "start"

\* The position after the listen address was looked at: back out with -1
\* when a non-empty FLAGS_listen_addr does not parse.
AfterListenAddr(addr) ==
    IF addr # "" /\ Str2Endpoint(addr) < 0 THEN "done" ELSE "start"

\* The code main returns when server.Start fails.
StartFailureCode == -1

\* server.AddService(...) != 0
AddServiceFail ==
    /\ spc = "add_service"
    /\ server_log' = [level |-> "ERROR", text |-> "Fail to add service"]
    /\ server_rc' = <<-1>>
    /\ spc' = "done"
    /\ UNCHANGED <<clientVars, FLAGS_echo_attachment, FLAGS_listen_addr, start_called,
                   run_called, server_quit, calls>>

\* server.AddService(...) == 0
AddServiceOk ==
    /\ spc = "add_service"
    /\ spc' = "listen_addr"
    /\ UNCHANGED <<clientVars, FLAGS_echo_attachment, FLAGS_listen_addr, server_rc,
                   start_called, run_called, server_quit, server_log, calls>>

\* if (!FLAGS_listen_addr.empty()) { if (str2endpoint(...) < 0) return -1; }
\* else { point = EndPoint(IP_ANY, FLAGS_port); }
ListenAddr ==
    /\ spc = "listen_addr"
    /\ spc' = AfterListenAddr(FLAGS_listen_addr)
    /\ IF AfterListenAddr(FLAGS_listen_addr) = "done"
       THEN /\ server_log' = [level |-> "ERROR", text |-> "Invalid listen address:"]
            /\ server_rc' = <<-1>>
       ELSE UNCHANGED <<server_log, server_rc>>
    /\ UNCHANGED <<clientVars, FLAGS_echo_attachment, FLAGS_listen_addr, start_called,
                   run_called, server_quit, calls>>

\* server.Start(point, &options) != 0
StartFail ==
    /\ spc = "start"
    /\ start_called' = TRUE
    /\ server_log' = [level |-> "ERROR", text |-> "Fail to start EchoServer"]
    /\ server_rc' = <<StartFailureCode>>
    /\ spc' = "done"
    /\ UNCHANGED <<clientVars, FLAGS_echo_attachment, FLAGS_listen_addr, run_called,
                   server_quit, calls>>

\* server.Start(point, &options) == 0: main enters RunUntilAskedToQuit.
StartOk ==
    /\ spc = "start"
    /\ start_called' = TRUE
    /\ run_called' = TRUE
    /\ spc' = "serving"
    /\ UNCHANGED <<clientVars, FLAGS_echo_attachment, FLAGS_listen_addr, server_rc,
                   server_quit, server_log, calls>>

\* Ctrl-C while the server is in RunUntilAskedToQuit.
ServerSignal ==
    /\ spc = "serving"
    /\ ~server_quit
    /\ server_quit' = TRUE
    /\ UNCHANGED <<clientVars, FLAGS_echo_attachment, FLAGS_listen_addr, spc, server_rc,
                   start_called, run_called, server_log, calls>>

\* server.RunUntilAskedToQuit() returns (Stop, then Join once the calls
\* under way have returned); return 0;
RunUntilAskedToQuit ==
    /\ spc = "serving"
    /\ server_quit
    /\ \A i \in Slots : ~Running(calls[i])
    /\ server_rc' = <<0>>
    /\ spc' = "done"
    /\ UNCHANGED <<clientVars, FLAGS_echo_attachment, FLAGS_listen_addr, start_called,
                   run_called, server_quit, server_log, calls>>

ServerMainNext ==
    \/ AddServiceFail
    \/ AddServiceOk
    \/ ListenAddr
    \/ StartFail
    \/ StartOk
    \/ ServerSignal
    \/ RunUntilAskedToQuit

HandlerNext ==
    \E i \in Slots :
        \/ Dispatch(i)
        \/ EchoGuard(i)
        \/ EchoLog(i)
        \/ EchoSetMessage(i)
        \/ EchoAttach(i)
        \/ EchoReturn(i)

\* The server process alone, listening on FLAGS_port; the client's flag at
\* its default.
InitServer == Init /\ FLAGS_attachment = <<>> /\ FLAGS_listen_addr = ""
SpecServer == InitServer /\ [][ServerMainNext \/ HandlerNext]_vars

\* The two mains, from process start to exit, the server without traffic.
InitMains == Init /\ FLAGS_attachment = <<>> /\ FLAGS_echo_attachment = TRUE
SpecMains == InitMains /\ [][ClientNext \/ ServerMainNext]_vars

(***************************************************************************)
(* Properties                                                              *)
(***************************************************************************)
\* The response a returned Echo owes to its own request under the flag.
OwnMessage(c) == c.request.message
OwnAttachment(c) == IF FLAGS_echo_attachment THEN c.cntl.request_attachment ELSE <<>>

\* C1: for every Echo call, done is run exactly once by the time the handler
\* returns -- not before, never zero times, never twice -- on every path and
\* for every request, the one with empty message and attachment included.
DoneRunsExactlyOnce ==
    \A i \in Slots :
        /\ calls[i].pc = "returned" => calls[i].done_runs = 1
        /\ calls[i].pc # "returned" => calls[i].done_runs = 0

\* A handler returned from a request with empty message and empty attachment
\* and done has run.
DoneRanForEmptyRequest ==
    \E i \in Slots :
        /\ calls[i].pc = "returned"
        /\ calls[i].request.message = ""
        /\ calls[i].cntl.request_attachment = <<>>
        /\ calls[i].done_runs = 1

\* C2: with echo_attachment enabled, a returned Echo leaves the response
\* message equal to the request message and the response attachment equal to
\* the request attachment, byte for byte.
RoundTrip ==
    \A i \in Slots :
        (calls[i].pc = "returned" /\ FLAGS_echo_attachment) =>
            /\ calls[i].response.message = calls[i].request.message
            /\ calls[i].cntl.response_attachment = calls[i].cntl.request_attachment

\* With the flag on, one handler returned from "hello world" without an
\* attachment and another from a request with an attachment.
RoundTripDone ==
    /\ FLAGS_echo_attachment
    /\ \E i, j \in Slots :
        /\ calls[i].pc = "returned"
        /\ calls[i].request.message = "hello world"
        /\ calls[i].cntl.request_attachment = <<>>
        /\ calls[i].cntl.response_attachment = <<>>
        /\ calls[j].pc = "returned"
        /\ calls[j].cntl.request_attachment # <<>>
        /\ calls[j].cntl.response_attachment # <<>>

\* C3: with echo_attachment disabled, a returned Echo leaves the response
\* attachment empty whatever the request attachment, and the response message
\* equal to the request message.
NoEchoWhenDisabled ==
    \A i \in Slots :
        (calls[i].pc = "returned" /\ ~FLAGS_echo_attachment) =>
            /\ calls[i].cntl.response_attachment = <<>>
            /\ calls[i].response.message = calls[i].request.message

\* With the flag off, a handler returned from a request that carried a
\* message and an attachment.
DisabledEchoDone ==
    /\ ~FLAGS_echo_attachment
    /\ \E i \in Slots :
        /\ calls[i].pc = "returned"
        /\ calls[i].cntl.request_attachment # <<>>
        /\ calls[i].request.message = "hello world"

\* The positions of the client's main inside an iteration whose call has not
\* been handed to stub.Echo yet.
BeforeCall == {"set_message", "set_log_id", "append_attachment", "call"}

\* C4: after N loop iterations exactly N requests were sent, one per
\* iteration, and the k-th request carries log_id k-1.
LogIdsCountTheCalls ==
    /\ Len(sent) = IF cpc \in BeforeCall THEN iterations - 1 ELSE iterations
    /\ \A k \in 1 .. Len(sent) : sent[k].log_id = k - 1

\* C5: no two calls of the client carry the same log_id.
LogIdNeverReused ==
    \A j, k \in 1 .. Len(sent) : j # k => sent[j].log_id # sent[k].log_id

LoopPositions ==
    {"loop_top", "set_message", "set_log_id", "append_attachment", "call", "wait",
     "judge", "sleep"}

\* C7: once the channel is initialised the client leaves its loop if
\* and only if IsAskedToQuit is seen true at the top of an iteration, and from
\* then on sends nothing.
LoopStopsOnlyOnQuit ==
    [][/\ (cpc \in LoopPositions /\ cpc' \notin LoopPositions) =>
            (cpc = "loop_top" /\ asked_to_quit /\ cpc' = "quit_log")
       /\ (cpc = "loop_top" /\ asked_to_quit) => cpc' \in {"loop_top", "quit_log"}
       /\ (cpc = "loop_top" /\ ~asked_to_quit) => cpc' \in LoopPositions
       /\ cpc \in {"quit_log", "done"} =>
            (sent' = sent /\ inflight' = inflight /\ cpc' \in {"quit_log", "done"})
      ]_vars

\* The client has sent calls, saw the request to quit and returned 0.
ClientQuitAfterCalls ==
    /\ cpc = "done"
    /\ client_rc = <<0>>
    /\ asked_to_quit
    /\ Len(sent) >= 2

\* C8: each main returns 0 on a clean shutdown and -1 on a startup failure;
\* a client that failed to start has sent nothing, a server that failed to
\* start never entered RunUntilAskedToQuit, and an invalid non-empty listen
\* address returns before Start is called.
ExitCodes ==
    /\ cpc = "done" <=> client_rc # <<>>
    /\ client_rc \in {<<>>, <<0>>, <<-1>>}
    /\ client_rc = <<-1>> =>
            (sent = <<>> /\ iterations = 0 /\ client_log.level = "ERROR")
    /\ client_rc = <<0>> => (asked_to_quit /\ client_log.level = "INFO")
    /\ spc = "done" <=> server_rc # <<>>
    /\ server_rc \in {<<>>, <<0>>, <<-1>>}
    /\ server_rc = <<-1>> => (~run_called /\ server_log.level = "ERROR")
    /\ server_rc = <<0>> => (start_called /\ run_called /\ server_quit)
    /\ (spc = "done" /\ server_log.text = "Fail to add service") =>
            (server_rc = <<-1>> /\ ~start_called)
    /\ (spc = "done" /\ server_log.text = "Fail to start EchoServer") =>
            (server_rc = <<-1>> /\ start_called)
    /\ (FLAGS_listen_addr = "not-an-address" /\ spc \notin {"add_service", "listen_addr"}) =>
            (server_rc = <<-1>> /\ ~start_called)
    /\ start_called => (FLAGS_listen_addr = "" \/ Str2Endpoint(FLAGS_listen_addr) >= 0)

\* The server returned -1 for an invalid listen address and the client
\* returned 0 after a clean shutdown.
ExitsReached ==
    /\ server_rc = <<-1>>
    /\ FLAGS_listen_addr = "not-an-address"
    /\ server_log.text = "Invalid listen address:"
    /\ client_rc = <<0>>
    /\ Len(sent) >= 1

\* C9: the client has at most one call in flight and every call has its own
\* request, response and Controller: a call starts only when none is in
\* flight, nothing of an earlier call is in its Controller or response, and
\* every request carries exactly FLAGS_attachment.
OneFreshCallAtATime ==
    /\ inflight \in {0, 1}
    /\ inflight = 1 <=> cpc = "wait"
    /\ cpc \in {"set_message", "set_log_id", "append_attachment", "call", "wait"} =>
            /\ ~cntl.failed
            /\ cntl.error_text = ""
            /\ cntl.response_attachment = <<>>
            /\ response = NewResponse
    /\ cpc \in {"call", "wait"} => cntl.request_attachment = FLAGS_attachment
    /\ \A k \in 1 .. Len(sent) :
            /\ sent[k].attachment = FLAGS_attachment
            /\ sent[k].message = "hello world"

\* A call with a non-empty attachment is in flight after an earlier call
\* failed.
SecondCallWithAttachment ==
    /\ cpc = "wait"
    /\ inflight = 1
    /\ Len(sent) >= 3
    /\ FLAGS_attachment # <<>>
    /\ client_log.level = "WARNING"

\* What a handler invocation may hold of its response at any moment: nothing
\* yet, or what its own request and the flag determine; all of it from the
\* end of the handler's body on.
OwnResult(c) ==
    /\ c.response.message \in {"", OwnMessage(c)}
    /\ c.cntl.response_attachment \in {<<>>, OwnAttachment(c)}
    /\ c.pc \in {"return", "returned"} =>
            /\ c.response.message = OwnMessage(c)
            /\ c.cntl.response_attachment = OwnAttachment(c)

\* C10: handler invocations running at once do not interfere: a step of one
\* changes no state of another and not the flag, and what it writes to its
\* response is determined by its own request and the flag.
HandlersDoNotInterfere ==
    [][/\ FLAGS_echo_attachment' = FLAGS_echo_attachment
       /\ \A i \in Slots :
            calls'[i] # calls[i] =>
                /\ \A j \in Slots \ {i} : calls'[j] = calls[j]
                /\ OwnResult(calls'[i])
      ]_vars

\* Two handler invocations with different requests are at the end of their
\* bodies at the same time.
TwoHandlersAtOnce ==
    \E i, j \in Slots :
        /\ i # j
        /\ calls[i].pc = "return"
        /\ calls[j].pc = "return"
        /\ calls[i].cntl.request_attachment # calls[j].cntl.request_attachment
        /\ calls[i].request.message # calls[j].request.message

=============================================================================
